---- MODULE Spec2Model ----
(***************************************************************************)
(* Model of the MJPEG stream driver of xcoffee: the unfold closure of      *)
(* XCoffee::subscription (src/src/main.rs, lines 126-285).                 *)
(*                                                                         *)
(* Bytes and characters are their ASCII codes.  The driver state is the    *)
(* enum State {Connecting, Streaming{stream, buffer, boundary,             *)
(* is_first_frame}, Sleeping(Duration)}; the fields of a variant that is   *)
(* not live hold their empty value.                                        *)
(***************************************************************************)
EXTENDS Integers, Sequences, FiniteSets, TLC

(* ------------------------------ bounds --------------------------------- *)
\* longest Content-Type value, in pieces of CtPieces
MaxCtPieces == 3
\* most parts of a body that follows the wire format
MaxParts == 2
\* longest arbitrary body, in pieces of NoisePieces
MaxNoisePieces == 3

(* ------------------------------ bytes ---------------------------------- *)
CR == 13
LF == 10
Dash == 45
Space == 32
Semicolon == 59
EqualsSign == 61

CRLF == <<CR, LF>>
\* b"\r\n\r\n"
header_body_separator == <<CR, LF, CR, LF>>
\* "boundary="
BoundaryKey == <<98, 111, 117, 110, 100, 97, 114, 121, 61>>
\* "multipart/x-mixed-replace"
MediaType == <<109, 117, 108, 116, 105, 112, 97, 114, 116, 47, 120, 45, 109,
               105, 120, 101, 100, 45, 114, 101, 112, 108, 97, 99, 101>>

None == -1

(* --------------------------- slice helpers ----------------------------- *)
\* The helpers over byte strings are functions, so that their arguments are
\* values when their bodies are evaluated.
Text == Seq(Nat)

Least(S) == CHOOSE i \in S : \A j \in S : i <= j
Greatest(S) == CHOOSE i \in S : \A j \in S : i >= j

\* slice.windows(n).position(|w| w == tok): 0-based offset of the first
\* window equal to tok, None when no window matches (or the slice is shorter
\* than tok)
Position[buf \in Text, tok \in Text] ==
    LET n == Len(tok)
        hits == {i \in 0..(Len(buf) - n) : SubSeq(buf, i + 1, i + n) = tok}
    IN  IF hits = {} THEN None ELSE Least(hits)

\* vec.drain(..n): the vector without its first n bytes
Drain(buf, n) == SubSeq(buf, n + 1, Len(buf))

\* str::starts_with
StartsWith(s, p) == Len(p) <= Len(s) /\ SubSeq(s, 1, Len(p)) = p

\* char::is_whitespace for the ASCII range
IsWhitespace(c) == c \in {9, 10, 11, 12, 13, Space}

\* str::trim: the text from its first to its last character that is not
\* whitespace
Trim[s \in Text] ==
    LET visible == {i \in 1..Len(s) : ~IsWhitespace(s[i])}
    IN  IF visible = {} THEN <<>>
        ELSE SubSeq(s, Least(visible), Greatest(visible))

\* str::split(ch), collected: the pieces between the occurrences of ch, in
\* order (a text with n occurrences gives n + 1 pieces, empty ones included)
Split[s \in Text, ch \in Nat] ==
    LET cuts == {0} \cup {i \in 1..Len(s) : s[i] = ch} \cup {Len(s) + 1}
        Cut(k) == CHOOSE c \in cuts : Cardinality({d \in cuts : d < c}) = k - 1
    IN  [k \in 1..(Cardinality(cuts) - 1) |->
            SubSeq(s, Cut(k) + 1, Cut(k + 1) - 1)]

\* ct.split(';').find(|s| s.trim().starts_with("boundary=")): the first
\* segment whose trimmed text starts with "boundary=", as an Option
\* (<<>> is None, <<seg>> is Some(seg))
FindBoundaryStr(ct) ==
    LET segs == Split[ct, Semicolon]
        hits == {i \in 1..Len(segs) : StartsWith(Trim[segs[i]], BoundaryKey)}
    IN  IF hits = {} THEN <<>> ELSE <<segs[Least(hits)]>>

\* boundary_str.split('=').nth(1).unwrap_or("").trim()
BoundaryOf(boundary_str) ==
    LET pieces == Split[boundary_str, EqualsSign]
    IN  Trim[IF Len(pieces) >= 2 THEN pieces[2] ELSE <<>>]

\* format!("--{}", boundary).into_bytes()
full_boundary(boundary) == <<Dash, Dash>> \o boundary

\* mutation: the upper end of the success range is not checked
IsSuccess_NoUpper(status) == status >= 200

\* StatusCode::is_success
IsSuccess(status) == status >= 200 /\ status <= 299

ReconnectDelaySecs == 5

(* ------------------------------ messages ------------------------------- *)
\* Message::Error(text) and Message::ImageLoaded(Ok(data)); code carries the
\* status formatted into the text of a bad-status error
Error(text) == [type |-> "Error", text |-> text, code |-> 0, data |-> <<>>]
ErrorStatus(text, status) ==
    [type |-> "Error", text |-> text, code |-> status, data |-> <<>>]
ImageLoaded(data) ==
    [type |-> "ImageLoaded", text |-> "", code |-> 0, data |-> data]
\* a step that does not end its activation yields nothing
NoMessage == [type |-> "None", text |-> "", code |-> 0, data |-> <<>>]

EmptyBoundaryMsg == Error("Empty boundary in Content-Type header")
ConnectedMsg == Error("Connected. Waiting for frame...")
BoundaryNotFoundMsg == Error("Boundary not found in Content-Type header")
MissingContentTypeMsg == Error("Missing Content-Type header")
BadStatusMsg(status) == ErrorStatus("Connection failed with status: ", status)
ConnectionErrorMsg == Error("Connection error: ")
StreamErrorMsg == Error("Stream error: ")
StreamEndedMsg == Error("Stream ended. Reconnecting...")
ReconnectingMsg == Error("Reconnecting...")

(* --------------------------- the network ------------------------------- *)
\* what reqwest::get(URL).await can resolve to: a transport error, or a
\* response with a status and a content-type header that is absent, not
\* visible ASCII (to_str() fails) or text
Statuses == {200, 204, 301, 500}

RECURSIVE Concat(_)
Concat(ss) == IF ss = <<>> THEN <<>> ELSE Head(ss) \o Concat(Tail(ss))

SeqsUpTo(S, n) == UNION {[1..k -> S] : k \in 0..n}

CtPieces == {<<Semicolon>>, <<Space>>, BoundaryKey, <<EqualsSign>>, <<88>>}

\* "multipart/x-mixed-replace; boundary=" followed by frame, BOUND and X
CtPrefix == MediaType \o <<Semicolon, Space>> \o BoundaryKey
CtFrame == CtPrefix \o <<102, 114, 97, 109, 101>>
CtBound == CtPrefix \o <<66, 79, 85, 78, 68>>
CtX == CtPrefix \o <<88>>

ContentTypes ==
    {Concat(f) : f \in SeqsUpTo(CtPieces, MaxCtPieces)}
        \cup {MediaType, CtFrame, CtBound, CtX}

NoResponse == [kind |-> "none", status |-> 0, ct_kind |-> "absent", ct |-> <<>>]
TransportError == [kind |-> "err", status |-> 0, ct_kind |-> "absent", ct |-> <<>>]

Responses ==
    {TransportError}
        \cup [kind : {"ok"}, status : Statuses,
              ct_kind : {"absent", "opaque"}, ct : {<<>>}]
        \cup [kind : {"ok"}, status : Statuses,
              ct_kind : {"text"}, ct : ContentTypes]

\* the bodies a server can send on one connection.  A body that follows the
\* wire format of the boundary token T is a first part T CRLF headers CRLF
\* CRLF payload, each later part introduced by CRLF T, and after the last
\* part either the delimiter CRLF T of a further part or nothing.
Headers == {<<72>>}
Payloads == {<<65>>, <<66, CR, LF, CR, LF, 66>>}
PartSet == [headers : Headers, payload : Payloads]

PartBytes(T, part) ==
    T \o CRLF \o part.headers \o header_body_separator \o part.payload

RECURSIVE WireBytes(_, _)
WireBytes(T, ps) ==
    IF ps = <<>> THEN <<>>
    ELSE IF Len(ps) = 1 THEN PartBytes(T, ps[1])
    ELSE WireBytes(T, SubSeq(ps, 1, Len(ps) - 1))
             \o CRLF \o PartBytes(T, ps[Len(ps)])

WireBodies(T) ==
    {[data |-> WireBytes(T, ps) \o (IF term THEN CRLF \o T ELSE <<>>),
      parts |-> ps, terminated |-> term] :
        ps \in (SeqsUpTo(PartSet, MaxParts) \ {<<>>}), term \in BOOLEAN}

NoisePieces(T) == {T, CRLF, header_body_separator, <<65>>}

NoiseBodies(T) ==
    {[data |-> Concat(f), parts |-> <<>>, terminated |-> FALSE] :
        f \in SeqsUpTo(NoisePieces(T), MaxNoisePieces)}

\* --BOUND CRLF H CRLF CRLF A --BOUND CRLF H CRLF CRLF B --BOUND
TwoPartBuffer ==
    LET T == <<Dash, Dash, 66, 79, 85, 78, 68>>
        P(x) == T \o CRLF \o <<72>> \o header_body_separator \o <<x>>
    IN  P(65) \o P(66) \o T

\* the chunks  --X CRLF | Content-Type: a CRLF CRLF DATA1 --X CRLF Cont |
\* ent-Type: a CRLF CRLF DATA2, concatenated
ThreeChunks ==
    LET T == <<Dash, Dash, 88>>
        H == <<67, 111, 110, 116, 101, 110, 116, 45, 84, 121, 112, 101, 58,
               32, 97>>
    IN  T \o CRLF \o H \o header_body_separator \o <<68, 65, 84, 65, 49>>
          \o T \o CRLF \o H \o header_body_separator \o <<68, 65, 84, 65, 50>>

\* --X CRLF H CRLF CRLF A CRLF --X CRLF --X CRLF H CRLF --X: a part with a
\* payload, then an empty part, then a part with no separator
MalformedAfterFrame ==
    LET T == <<Dash, Dash, 88>>
    IN  T \o CRLF \o <<72>> \o header_body_separator \o <<65>> \o CRLF \o T
          \o CRLF \o T \o CRLF \o <<72>> \o CRLF \o T

\* the byte streams above, each under the boundary it is written for
ScenarioBodies(T) ==
    {[data |-> d, parts |-> <<>>, terminated |-> FALSE] :
        d \in {x \in {TwoPartBuffer, ThreeChunks, MalformedAfterFrame} :
                  StartsWith(x, T \o CRLF)}}

Bodies(T) == WireBodies(T) \cup NoiseBodies(T) \cup ScenarioBodies(T)

(* ------------------------------- state --------------------------------- *)
VARIABLES
    state,           \* the live variant: "Connecting", "Streaming", "Sleeping"
    buffer,          \* Streaming.buffer
    boundary,        \* Streaming.boundary
    is_first_frame,  \* Streaming.is_first_frame
    stream,          \* Streaming.stream: the bytes it has yet to deliver
    delay,           \* Sleeping.0, in seconds
    response,        \* what reqwest::get resolved to, until it is handled
    event,           \* the message yielded by the last step
    rx,              \* history: the bytes received on this connection
    frames,          \* history: the frames emitted on this connection
    parts,           \* history: the parts of a wire-format body, else <<>>
    terminated,      \* history: the last part of it is followed by CRLF T
    leftover         \* history: a connection went down with bytes buffered

vars == <<state, buffer, boundary, is_first_frame, stream, delay, response,
          event, rx, frames, parts, terminated, leftover>>

\* line 143: the unfold starts in State::Connecting
Init ==
    /\ state = "Connecting"
    /\ buffer = <<>>
    /\ boundary = <<>>
    /\ is_first_frame = FALSE
    /\ stream = <<>>
    /\ delay = 0
    /\ response = NoResponse
    /\ event = NoMessage
    /\ rx = <<>>
    /\ frames = <<>>
    /\ parts = <<>>
    /\ terminated = FALSE
    /\ leftover = FALSE

(* --------------------------- State::Connecting ------------------------- *)
\* reqwest::get(URL).await resolves
HttpResponse ==
    /\ state = "Connecting"
    /\ response = NoResponse
    /\ response' \in Responses
    /\ event' = NoMessage
    /\ UNCHANGED <<state, buffer, boundary, is_first_frame, stream, delay,
                   rx, frames, parts, terminated, leftover>>

\* the outcome of the Connecting arm for a response r: the message yielded,
\* whether the next state is Streaming, and the boundary stored in it
ToSleeping(msg) == [msg |-> msg, streaming |-> FALSE, boundary |-> <<>>]

\* mutation: the boundary value is not checked for emptiness
ConnectOutcome_AnyBoundary(r) ==
    IF r.kind = "err" THEN ToSleeping(ConnectionErrorMsg)
    ELSE IF ~IsSuccess(r.status) THEN ToSleeping(BadStatusMsg(r.status))
    ELSE IF r.ct_kind # "text" THEN ToSleeping(MissingContentTypeMsg)
    ELSE LET found == FindBoundaryStr(r.ct)
         IN  IF found = <<>> THEN ToSleeping(BoundaryNotFoundMsg)
             ELSE [msg |-> ConnectedMsg, streaming |-> TRUE,
                   boundary |-> full_boundary(BoundaryOf(found[1]))]

ConnectOutcome(r) ==
    IF r.kind = "err" THEN ToSleeping(ConnectionErrorMsg)
    ELSE IF ~IsSuccess(r.status) THEN ToSleeping(BadStatusMsg(r.status))
    ELSE IF r.ct_kind # "text" THEN ToSleeping(MissingContentTypeMsg)
    ELSE LET found == FindBoundaryStr(r.ct)
         IN  IF found = <<>> THEN ToSleeping(BoundaryNotFoundMsg)
             ELSE LET b == BoundaryOf(found[1])
                  IN  IF b = <<>> THEN ToSleeping(EmptyBoundaryMsg)
                      ELSE [msg |-> ConnectedMsg, streaming |-> TRUE,
                            boundary |-> full_boundary(b)]

\* mutation: the bytes a connection left behind start the next buffer
NewBuffer_Stale == IF leftover THEN CRLF ELSE <<>>

\* line 177: buffer: Vec::new(); line 179: is_first_frame: true
NewBuffer == <<>>
NewIsFirstFrame == TRUE

Connecting ==
    /\ state = "Connecting"
    /\ response # NoResponse
    /\ \E out \in {ConnectOutcome(response)} :
           /\ event' = out.msg
           /\ response' = NoResponse
           /\ boundary' = out.boundary
           /\ rx' = <<>>
           /\ frames' = <<>>
           /\ UNCHANGED leftover
           /\ IF out.streaming
              THEN /\ state' = "Streaming"
                   /\ buffer' = NewBuffer
                   /\ is_first_frame' = NewIsFirstFrame
                   /\ delay' = 0
                   /\ \E body \in Bodies(out.boundary) :
                        /\ stream' = body.data
                        /\ parts' = body.parts
                        /\ terminated' = body.terminated
              ELSE /\ state' = "Sleeping"
                   /\ delay' = ReconnectDelaySecs
                   /\ buffer' = <<>>
                   /\ is_first_frame' = FALSE
                   /\ stream' = <<>>
                   /\ parts' = <<>>
                   /\ terminated' = FALSE

(* --------------------------- State::Streaming -------------------------- *)
\* mutation: the raw token is searched for every frame
boundary_to_search_Raw == boundary

\* lines 219-223
boundary_to_search ==
    IF is_first_frame THEN boundary ELSE CRLF \o boundary

\* mutation: the window compared is one byte short of the token
boundary_pos_Short ==
    Position[buffer, SubSeq(boundary_to_search, 1,
                            Len(boundary_to_search) - 1)]

\* lines 225-227
boundary_pos == Position[buffer, boundary_to_search]

\* line 229: &buffer[..boundary_pos]
part_data == SubSeq(buffer, 1, boundary_pos)

\* mutation: the separator is the last CRLF CRLF of the part
separator_pos_Last ==
    LET n == Len(header_body_separator)
        hits == {i \in 0..(Len(part_data) - n) :
                    SubSeq(part_data, i + 1, i + n) = header_body_separator}
    IN  IF hits = {} THEN None ELSE Greatest(hits)

\* lines 232-234
separator_pos == Position[part_data, header_body_separator]

\* lines 236-238: part_data[separator_pos + header_body_separator.len()..]
image_data ==
    SubSeq(part_data, separator_pos + Len(header_body_separator) + 1,
           Len(part_data))

\* mutation: the length of the raw token, not of the token searched
DrainLen_Raw == boundary_pos + Len(boundary)

\* lines 240 and 253: the number of bytes drained from the front
DrainLen == boundary_pos + Len(boundary_to_search)

\* mutation: the payload is not checked for emptiness
FrameReady_AnyPayload ==
    /\ part_data # <<>>
    /\ separator_pos # None

\* the conditions of lines 230, 232 and 239 under which the loop breaks with
\* a frame
FrameReady ==
    /\ part_data # <<>>
    /\ separator_pos # None
    /\ image_data # <<>>

\* lines 240-249: the token is found and the part before it holds a payload
StreamingFrame ==
    /\ state = "Streaming"
    /\ boundary_pos # None
    /\ FrameReady
    /\ buffer' = Drain(buffer, DrainLen)
    /\ event' = ImageLoaded(image_data)
    /\ is_first_frame' = FALSE
    /\ frames' = Append(frames, image_data)
    /\ UNCHANGED <<state, boundary, stream, delay, response, rx, parts,
                   terminated, leftover>>

\* mutation: a part that is discarded is reported as an error
StreamingDiscard_Reports ==
    /\ state = "Streaming"
    /\ boundary_pos # None
    /\ ~FrameReady
    /\ buffer' = Drain(buffer, DrainLen)
    /\ event' = Error("Malformed part")
    /\ UNCHANGED <<state, boundary, is_first_frame, stream, delay, response,
                   rx, frames, parts, terminated, leftover>>

\* mutation: a part that is discarded stays in the buffer
StreamingDiscard_Keeps ==
    /\ state = "Streaming"
    /\ boundary_pos # None
    /\ ~FrameReady
    /\ buffer' = buffer
    /\ event' = NoMessage
    /\ UNCHANGED <<state, boundary, is_first_frame, stream, delay, response,
                   rx, frames, parts, terminated, leftover>>

\* mutation: a discard clears is_first_frame
StreamingDiscard_ClearsFlag ==
    /\ state = "Streaming"
    /\ boundary_pos # None
    /\ ~FrameReady
    /\ buffer' = Drain(buffer, DrainLen)
    /\ event' = NoMessage
    /\ is_first_frame' = FALSE
    /\ UNCHANGED <<state, boundary, stream, delay, response, rx, frames,
                   parts, terminated, leftover>>

\* line 253: the token is found, the part before it is empty or malformed;
\* the loop goes on
StreamingDiscard ==
    /\ state = "Streaming"
    /\ boundary_pos # None
    /\ ~FrameReady
    /\ buffer' = Drain(buffer, DrainLen)
    /\ event' = NoMessage
    /\ UNCHANGED <<state, boundary, is_first_frame, stream, delay, response,
                   rx, frames, parts, terminated, leftover>>

\* mutation: the scan runs over the bytes of the new chunk only
StreamingChunk_FreshOnly ==
    /\ state = "Streaming"
    /\ boundary_pos = None
    /\ \E n \in 1..Len(stream) :
         LET chunk == SubSeq(stream, 1, n)
         IN  /\ buffer' = chunk
             /\ rx' = rx \o chunk
             /\ stream' = Drain(stream, n)
    /\ event' = NoMessage
    /\ UNCHANGED <<state, boundary, is_first_frame, delay, response, frames,
                   parts, terminated, leftover>>

\* mutation: the stream is read whether or not a token is in the buffer
StreamingChunk_Eager ==
    /\ state = "Streaming"
    /\ \E n \in 1..Len(stream) :
         LET chunk == SubSeq(stream, 1, n)
         IN  /\ buffer' = buffer \o chunk
             /\ rx' = rx \o chunk
             /\ stream' = Drain(stream, n)
    /\ event' = NoMessage
    /\ UNCHANGED <<state, boundary, is_first_frame, delay, response, frames,
                   parts, terminated, leftover>>

\* lines 255-258: no token; stream.next() gives Some(Ok(chunk)), a non-empty
\* prefix of what the stream has yet to deliver
StreamingChunk ==
    /\ state = "Streaming"
    /\ boundary_pos = None
    /\ \E n \in 1..Len(stream) :
         LET chunk == SubSeq(stream, 1, n)
         IN  /\ buffer' = buffer \o chunk
             /\ rx' = rx \o chunk
             /\ stream' = Drain(stream, n)
    /\ event' = NoMessage
    /\ UNCHANGED <<state, boundary, is_first_frame, delay, response, frames,
                   parts, terminated, leftover>>

\* the transition to State::Sleeping(Duration::from_secs(5)), which drops
\* the stream and the buffer of the Streaming variant
GoToSleep(msg) ==
    /\ state' = "Sleeping"
    /\ delay' = ReconnectDelaySecs
    /\ event' = msg
    /\ buffer' = <<>>
    /\ boundary' = <<>>
    /\ is_first_frame' = FALSE
    /\ stream' = <<>>
    /\ rx' = <<>>
    /\ frames' = <<>>
    /\ parts' = <<>>
    /\ terminated' = FALSE
    /\ leftover' = (leftover \/ buffer # <<>>)
    /\ UNCHANGED response

\* lines 259-264: no token; stream.next() gives Some(Err(e))
StreamingError ==
    /\ state = "Streaming"
    /\ boundary_pos = None
    /\ GoToSleep(StreamErrorMsg)

\* lines 265-270: no token; stream.next() gives None
StreamingEnded ==
    /\ state = "Streaming"
    /\ boundary_pos = None
    /\ stream = <<>>
    /\ GoToSleep(StreamEndedMsg)

(* ---------------------------- State::Sleeping -------------------------- *)
\* mutation: the sleep is followed by another sleep, not by a reconnect
Sleeping_Again ==
    /\ state = "Sleeping"
    /\ state' = "Sleeping"
    /\ event' = ReconnectingMsg
    /\ UNCHANGED <<buffer, boundary, is_first_frame, stream, delay, response,
                   rx, frames, parts, terminated, leftover>>

\* lines 274-281
Sleeping ==
    /\ state = "Sleeping"
    /\ state' = "Connecting"
    /\ delay' = 0
    /\ event' = ReconnectingMsg
    /\ UNCHANGED <<buffer, boundary, is_first_frame, stream, response, rx,
                   frames, parts, terminated, leftover>>

Next ==
    \/ HttpResponse
    \/ Connecting
    \/ StreamingFrame
    \/ StreamingDiscard
    \/ StreamingChunk
    \/ StreamingError
    \/ StreamingEnded
    \/ Sleeping

Spec == Init /\ [][Next]_vars

TypeOK ==
    /\ state \in {"Connecting", "Streaming", "Sleeping"}
    /\ is_first_frame \in BOOLEAN
    /\ delay \in {0, ReconnectDelaySecs}

(* ------------------------ notions of the claims ------------------------ *)
IsSuffix(s, t) == Len(s) <= Len(t) /\ SubSeq(t, Len(t) - Len(s) + 1, Len(t)) = s

IsInfix(s, t) == Position[t, s] # None

\* the drain loop has nothing more to take from the buffer
NeedMoreData == state = "Streaming" /\ boundary_pos = None

\* the bytes of this connection that have left the buffer
Drained == SubSeq(rx, 1, Len(rx) - Len(buffer))

\* the number of parts of a wire-format body whose following delimiter
\* CRLF T has been received completely
CompletedParts ==
    Cardinality({i \in 1..Len(parts) :
        /\ i < Len(parts) \/ terminated
        /\ Len(rx) >= Len(WireBytes(boundary, SubSeq(parts, 1, i)))
                        + Len(CRLF \o boundary)})

BoundToken == <<Dash, Dash, 66, 79, 85, 78, 68>>
XToken == <<Dash, Dash, 88>>
Data1 == <<68, 65, 84, 65, 49>>
Data2 == <<68, 65, 84, 65, 50>>

(* -------------------------------- C1 ----------------------------------- *)
\* C1: on a connection whose body follows the wire format, the frames
\* emitted are, in order, exactly the payloads of the parts that have been
\* followed by a delimiter: each frame equals the payload of its part (no
\* header, boundary or CRLF byte), and once the drain loop needs more data
\* there is one frame for every completed part.
C1_FramesArePayloads ==
    (state = "Streaming" /\ parts # <<>>) =>
        /\ Len(frames) <= Len(parts)
        /\ \A i \in 1..Len(frames) : frames[i] = parts[i].payload
        /\ NeedMoreData => Len(frames) = CompletedParts

(* -------------------------------- C2 ----------------------------------- *)
\* the buffer of C2 has been received whole, under the boundary --BOUND, and
\* the drain loop has taken all it can from it
TwoPartBufferDrained ==
    /\ NeedMoreData
    /\ boundary = BoundToken
    /\ rx = TwoPartBuffer

\* C2 as stated: draining that buffer emits two frames, A and then B.
C2_DrainsAThenB ==
    TwoPartBufferDrained => frames = << <<65>>, <<66>> >>

\* C2 as amended: draining that buffer emits one frame, A; the part holding
\* B stays in the buffer, because the token searched after the first frame
\* is CRLF --BOUND and B is followed by --BOUND without a CRLF.
C2_DrainsAOnly ==
    TwoPartBufferDrained =>
        /\ frames = << <<65>> >>
        /\ ~is_first_frame
        /\ buffer = CRLF \o <<72>> \o header_body_separator \o <<66>>
                      \o BoundToken

C2_Witness ==
    /\ TwoPartBufferDrained
    /\ stream = <<>>
    /\ frames = << <<65>> >>

(* -------------------------------- C3 ----------------------------------- *)
\* C3: once a two-part wire-format body with its terminating delimiter has
\* been fed whole and the drain loop needs more data, exactly two frames
\* have been emitted, the first from the first part and the second from the
\* second part, and the buffer is empty; no third frame is ever emitted.
C3_TwoFramesThenEmpty ==
    (state = "Streaming" /\ Len(parts) = 2 /\ terminated) =>
        /\ Len(frames) <= 2
        /\ (NeedMoreData /\ stream = <<>>) =>
              /\ Len(frames) = 2
              /\ StartsWith(frames[1], parts[1].payload)
              /\ frames[2] = parts[2].payload
              /\ buffer = <<>>

C3_Witness ==
    /\ NeedMoreData
    /\ Len(parts) = 2 /\ terminated
    /\ parts[1].payload # parts[2].payload
    /\ stream = <<>>
    /\ Len(frames) = 2
    /\ buffer = <<>>

(* -------------------------------- C4 ----------------------------------- *)
\* C4: a frame is emitted only when the boundary token that ends its part
\* is in the received bytes in full, right after the payload; a wire-format
\* body never yields more frames than it has parts followed by a delimiter;
\* the three chunks of the scenario yield DATA1 and then leave the part of
\* DATA2 in the buffer, needing more data; and a stream that ends goes to
\* Sleeping with the stream-ended event, the buffered part dropped.
C4_FrameOnlyAfterBoundary ==
    /\ event.type = "ImageLoaded" =>
          /\ state = "Streaming"
          /\ \/ IsSuffix(event.data \o boundary, Drained)
             \/ IsSuffix(event.data \o CRLF \o boundary, Drained)
    /\ (state = "Streaming" /\ parts # <<>>) => Len(frames) <= CompletedParts
    /\ (state = "Streaming" /\ boundary = XToken /\ rx \o stream = ThreeChunks) =>
          /\ frames \in {<<>>, <<Data1>>}
          /\ (NeedMoreData /\ stream = <<>>) =>
                /\ frames = <<Data1>>
                /\ IsSuffix(header_body_separator \o Data2, buffer)
    /\ event = StreamEndedMsg =>
          state = "Sleeping" /\ delay = ReconnectDelaySecs /\ buffer = <<>>

C4_Witness ==
    /\ NeedMoreData
    /\ boundary = XToken
    /\ rx = ThreeChunks
    /\ frames = <<Data1>>
    /\ IsSuffix(Data2, buffer)

(* -------------------------------- C5 ----------------------------------- *)
\* the messages of the failures: bad status, missing content type, missing
\* or empty boundary, transport error on connect or on a chunk, stream end
IsFailureMsg(m) ==
    \/ m \in {EmptyBoundaryMsg, BoundaryNotFoundMsg, MissingContentTypeMsg,
              ConnectionErrorMsg, StreamErrorMsg, StreamEndedMsg}
    \/ \E st \in Statuses : m = BadStatusMsg(st)

\* the sleep elapses and the network answers
FairSpec ==
    /\ Spec
    /\ WF_vars(Sleeping)
    /\ WF_vars(HttpResponse)

\* C5: every failure puts the driver in Sleeping with a delay of 5 seconds;
\* no state is terminal; and every failure is followed by the reconnecting
\* event and a new connection attempt.
C5_AlwaysReconnects ==
    /\ [](IsFailureMsg(event) => state = "Sleeping")
    /\ [](state = "Sleeping" => delay = 5 /\ ENABLED Sleeping)
    /\ [](ENABLED Next)
    /\ IsFailureMsg(event) ~> (state = "Connecting" /\ event = ReconnectingMsg)

C5_Witness ==
    /\ state = "Connecting"
    /\ event = ReconnectingMsg
    /\ leftover

(* ----------------------------- C6, C7, C8 ------------------------------ *)
\* the boundary= attribute of a Content-Type, as the claims speak of it: the
\* first ;-separated segment that starts, after trimming, with "boundary=",
\* and as its value everything after that "boundary=", trimmed
AttrSegments(ct) ==
    SelectSeq(Split[ct, Semicolon],
              LAMBDA seg : StartsWith(Trim[seg], BoundaryKey))

HasBoundaryAttr(ct) == AttrSegments(ct) # <<>>

NegotiatedValue(ct) ==
    Trim[Drain(Trim[AttrSegments(ct)[1]], Len(BoundaryKey))]

\* the first failing check of a response, in the order of C8; "none" when
\* every check passes
FirstFailure(r) ==
    IF ~(r.status \in 200..299) THEN "status"
    ELSE IF r.ct_kind # "text" THEN "content-type"
    ELSE IF ~HasBoundaryAttr(r.ct) THEN "no-boundary"
    ELSE IF NegotiatedValue(r.ct) = <<>> THEN "empty-boundary"
    ELSE "none"

\* a step of the Connecting arm on a resolved request
AttemptStep == state = "Connecting" /\ response # NoResponse

\* C6: an attempt that fails (transport error or a failing check) yields one
\* failure message and goes to Sleeping; and Streaming is entered only from
\* Connecting, on a response with a success status and a non-empty
\* negotiated boundary.
C6_FailedAttemptSleeps ==
    [][/\ (AttemptStep /\ (response.kind = "err"
                             \/ FirstFailure(response) # "none")) =>
              /\ state' = "Sleeping"
              /\ IsFailureMsg(event')
       /\ (state # "Streaming" /\ state' = "Streaming") =>
              /\ AttemptStep
              /\ response.kind = "ok"
              /\ response.status \in 200..299
              /\ response.ct_kind = "text"
              /\ HasBoundaryAttr(response.ct)
              /\ NegotiatedValue(response.ct) # <<>>
              /\ Len(boundary') > 2
              /\ event' = ConnectedMsg]_vars

C6_Witness ==
    /\ state = "Sleeping"
    /\ event = BadStatusMsg(500)

\* C7: on a successful open whose boundary= attribute has a non-empty value,
\* the boundary stored in Streaming is -- followed by that whole value; a
\* Content-Type without the attribute gives the boundary-not-found error.
C7_BoundaryIsWholeValue ==
    [][(AttemptStep /\ response.kind = "ok"
          /\ FirstFailure(response) \in {"no-boundary", "none"}) =>
           IF FirstFailure(response) = "no-boundary"
           THEN state' = "Sleeping" /\ event' = BoundaryNotFoundMsg
           ELSE /\ state' = "Streaming"
                /\ boundary' = <<Dash, Dash>> \o NegotiatedValue(response.ct)]_vars

\* C8: an attempt on a response emits the error of the first failing check,
\* and no error when every check passes.
C8_FirstFailingCheck ==
    [][(AttemptStep /\ response.kind = "ok") =>
           event' = CASE FirstFailure(response) = "status" ->
                            BadStatusMsg(response.status)
                      [] FirstFailure(response) = "content-type" ->
                            MissingContentTypeMsg
                      [] FirstFailure(response) = "no-boundary" ->
                            BoundaryNotFoundMsg
                      [] FirstFailure(response) = "empty-boundary" ->
                            EmptyBoundaryMsg
                      [] OTHER -> ConnectedMsg]_vars

(* -------------------------------- C9 ----------------------------------- *)
\* C9: every frame emitted has at least one byte.
C9_NoEmptyFrame ==
    /\ event.type = "ImageLoaded" => event.data # <<>>
    /\ \A i \in 1..Len(frames) : frames[i] # <<>>

\* a part with nothing after its separator has just been discarded
C9_Witness ==
    /\ state = "Streaming"
    /\ event = NoMessage
    /\ frames = <<>>
    /\ IsSuffix(header_body_separator \o boundary, Drained)

(* -------------------------------- C10 ---------------------------------- *)
\* C10: Streaming is entered with an empty buffer and is_first_frame set;
\* the buffer holds only bytes received on the current connection and is
\* gone outside Streaming; every frame is a run of bytes received on the
\* current connection.
C10_BufferPerConnection ==
    /\ (state = "Streaming" /\ event = ConnectedMsg) =>
          buffer = <<>> /\ is_first_frame /\ rx = <<>>
    /\ state = "Streaming" => IsSuffix(buffer, rx)
    /\ state # "Streaming" => buffer = <<>>
    /\ \A i \in 1..Len(frames) : IsInfix(frames[i], rx)

\* a frame emitted on a connection opened after an earlier one went down
\* with bytes in its buffer
C10_Witness ==
    /\ leftover
    /\ state = "Streaming"
    /\ event.type = "ImageLoaded"

(* -------------------------------- C11 ---------------------------------- *)
\* a step that closes an activation: it yields a message and a state to
\* continue from; a step inside an activation yields nothing and stays in
\* the arm it is in
ClosesActivation == event' # NoMessage
InsideActivation == event' = NoMessage /\ state' = state

\* C11: every activation ends with exactly one message and one continuation
\* state: the Connecting arm with a status or error message and Streaming
\* or Sleeping, the Sleeping arm with the reconnect message and Connecting;
\* in the Streaming arm a chunk append or a discard yields nothing and stays
\* in Streaming, and the arm ends only with a frame (on to Streaming), a
\* stream error or a stream end (on to Sleeping).
C11_OneEventPerActivation ==
    [][/\ state = "Connecting" =>
            \/ InsideActivation /\ response = NoResponse
                   /\ response' # NoResponse
            \/ ClosesActivation /\ event'.type = "Error"
                   /\ state' \in {"Streaming", "Sleeping"}
       /\ state = "Sleeping" =>
            ClosesActivation /\ event' = ReconnectingMsg
               /\ state' = "Connecting"
       /\ state = "Streaming" =>
            \/ InsideActivation /\ frames' = frames
                   /\ \/ rx' = rx /\ IsSuffix(buffer', buffer)
                             /\ buffer' # buffer
                      \/ rx' # rx /\ StartsWith(buffer', buffer)
            \/ ClosesActivation /\ event'.type = "ImageLoaded"
                   /\ state' = "Streaming"
                   /\ frames' = Append(frames, event'.data)
            \/ ClosesActivation /\ event' \in {StreamErrorMsg, StreamEndedMsg}
                   /\ state' = "Sleeping"]_vars

\* a part has been discarded after a frame: the activation that follows the
\* frame is still running and has yielded nothing
C11_Witness ==
    /\ state = "Streaming"
    /\ event = NoMessage
    /\ frames # <<>>
    /\ rx # <<>>
    /\ buffer = <<>>

(* -------------------------------- C12 ---------------------------------- *)
\* p is what follows the first CRLF CRLF of part: part is h CRLF CRLF p and
\* no CRLF CRLF starts within h
Decodes(part, p) ==
    \E k \in 0..Len(part) :
        LET h == SubSeq(part, 1, k)
        IN  /\ part = h \o header_body_separator \o p
            /\ ~IsInfix(header_body_separator, h \o <<CR, LF, CR>>)

Suffixes(s) == {SubSeq(s, i, Len(s)) : i \in 1..(Len(s) + 1)}

\* C12: when the token is found, the part before it is decoded: if it holds
\* CRLF CRLF followed by at least one byte, the frame emitted is exactly the
\* bytes after the first CRLF CRLF (later ones are kept in it); a part with
\* no CRLF CRLF, or with nothing after it, gives no frame.
C12_PartDecoding ==
    [][(state = "Streaming" /\ boundary_pos # None) =>
          LET part == SubSeq(buffer, 1, boundary_pos)
          IN  IF \E p \in Suffixes(part) : p # <<>> /\ Decodes(part, p)
              THEN /\ event'.type = "ImageLoaded"
                   /\ Decodes(part, event'.data)
                   /\ frames' = Append(frames, event'.data)
              ELSE /\ event' = NoMessage
                   /\ frames' = frames]_vars

\* a frame that holds a CRLF CRLF of its own has been emitted
C12_Witness ==
    /\ state = "Streaming"
    /\ event.type = "ImageLoaded"
    /\ IsInfix(header_body_separator \o <<66>>, event.data)

(* -------------------------------- C13 ---------------------------------- *)
\* an occurrence of the token has been found and drained on this connection
OccurrenceConsumed == state = "Streaming" /\ Len(buffer) < Len(rx)

\* C13: on a connection the raw token is searched only for the first
\* occurrence of the boundary: once an occurrence has been consumed, the
\* token searched is CRLF followed by the boundary.
C13_RawTokenOnlyFirst ==
    OccurrenceConsumed => boundary_to_search = CRLF \o boundary

(* -------------------------------- C14 ---------------------------------- *)
\* C14: when the token searched is found, the step removes from the front of
\* the buffer the bytes before the first occurrence and the occurrence
\* itself, whether it emits a frame or discards the part; what follows the
\* occurrence stays, unchanged and in order.
C14_DrainsThroughToken ==
    [][(state = "Streaming" /\ IsInfix(boundary_to_search, buffer)) =>
          \E p \in 0..Len(buffer) :
              /\ buffer = SubSeq(buffer, 1, p) \o boundary_to_search \o buffer'
              /\ ~IsInfix(boundary_to_search,
                          SubSeq(buffer, 1, p + Len(boundary_to_search) - 1))
              /\ rx' = rx
              /\ event' = NoMessage \/ event'.type = "ImageLoaded"]_vars

\* after a frame, an empty part has been drained together with the token
\* CRLF --X that ends it, and the part that follows is still in the buffer
C14_Witness ==
    /\ state = "Streaming"
    /\ event = NoMessage
    /\ frames # <<>>
    /\ stream = <<>>
    /\ buffer = CRLF \o <<72>> \o CRLF \o XToken

(* -------------------------------- C15 ---------------------------------- *)
\* the part before the token is empty, has no CRLF CRLF, or has nothing
\* after its first CRLF CRLF
Malformed(part) ==
    \/ part = <<>>
    \/ ~IsInfix(header_body_separator, part)
    \/ Decodes(part, <<>>)

\* C15: a malformed part yields no message and leaves the driver in
\* Streaming on the same connection, with the same boundary and the frames
\* emitted so far; Streaming is left only for Sleeping, only when no token
\* is in the buffer, with the stream-error message or, the stream being
\* exhausted, the stream-ended message.
C15_MalformedPartIsSilent ==
    [][state = "Streaming" =>
          /\ (boundary_pos # None /\ Malformed(part_data)) =>
                 /\ event' = NoMessage
                 /\ state' = "Streaming"
                 /\ boundary' = boundary
                 /\ stream' = stream
                 /\ frames' = frames
                 /\ is_first_frame' = is_first_frame
          /\ state' # "Streaming" =>
                 /\ state' = "Sleeping"
                 /\ boundary_pos = None
                 /\ \/ event' = StreamErrorMsg
                    \/ event' = StreamEndedMsg /\ stream = <<>>]_vars

\* after a frame, a part with no CRLF CRLF has been discarded and the
\* driver is still in Streaming
C15_Witness ==
    /\ state = "Streaming"
    /\ event = NoMessage
    /\ frames # <<>>
    /\ boundary = XToken
    /\ IsSuffix(CRLF \o <<72>> \o CRLF \o XToken, Drained)

(* -------------------------------- C16 ---------------------------------- *)
\* one iteration of the loop of the Streaming arm: a frame, a discard, or
\* stream.next().await resolving to a chunk, to an error or to None
StreamingArm ==
    \/ StreamingFrame
    \/ StreamingDiscard
    \/ StreamingChunk
    \/ StreamingError
    \/ StreamingEnded

\* the driver on the connections whose boundary is --X
XNext ==
    \/ HttpResponse
    \/ Connecting /\ boundary' \in {<<>>, XToken}
    \/ StreamingArm
    \/ Sleeping

\* on these connections the loop runs on and the stream, which has finitely
\* many bytes to deliver, answers every read
StreamFairSpec == Init /\ [][XNext]_vars /\ WF_vars(StreamingArm)

\* C16: no activation of the Streaming arm runs forever, whatever the bytes
\* are: from every Streaming state, after the frames the bytes hold, the
\* driver reaches the return with the stream-error or stream-ended message;
\* every step that finds a token, a discard included, strictly shortens the
\* buffer.
C16_ActivationCompletes ==
    /\ state = "Streaming" ~>
           (state = "Sleeping" /\ event \in {StreamErrorMsg, StreamEndedMsg})
    /\ [][(state = "Streaming" /\ boundary_pos # None) =>
              Len(buffer') < Len(buffer)]_vars

\* a stream has delivered all its bytes, none of them in a boundary, and
\* the activation is about to end with the stream-ended message
C16_Witness ==
    /\ state = "Streaming"
    /\ stream = <<>>
    /\ rx # <<>>
    /\ buffer = rx
    /\ ~IsInfix(boundary, rx)

(* -------------------------------- C17 ---------------------------------- *)
\* the loop of lines 218-253 run over bytes that arrive in one chunk: the
\* frames it emits, the bytes it retains and the flag it ends with
RECURSIVE OnePass(_, _, _, _)
OnePass(T, buf, first, out) ==
    LET tok == IF first THEN T ELSE CRLF \o T
        p == Position[buf, tok]
    IN  IF p = None
        THEN [frames |-> out, buffer |-> buf, is_first_frame |-> first]
        ELSE LET part == SubSeq(buf, 1, p)
                 sp == Position[part, header_body_separator]
                 image == IF sp = None THEN <<>>
                          ELSE SubSeq(part, sp + Len(header_body_separator) + 1,
                                      Len(part))
                 rest == Drain(buf, p + Len(tok))
             IN  IF image # <<>>
                 THEN OnePass(T, rest, FALSE, Append(out, image))
                 ELSE OnePass(T, rest, first, out)

SingleChunk == OnePass(boundary, rx, TRUE, <<>>)

\* C17: however the bytes received on a connection were split into chunks,
\* the frames emitted are frames of the same bytes arriving in one chunk, in
\* the same order, and when the loop has nothing more to take from the
\* buffer they are all of them, with the same bytes retained.
C17_ChunkingIndependent ==
    state = "Streaming" =>
        /\ Len(frames) <= Len(SingleChunk.frames)
        /\ frames = SubSeq(SingleChunk.frames, 1, Len(frames))
        /\ NeedMoreData =>
               /\ frames = SingleChunk.frames
               /\ buffer = SingleChunk.buffer
               /\ is_first_frame = SingleChunk.is_first_frame

\* after a frame, a read has ended inside the token CRLF --X that ends the
\* next part, whose CRLF CRLF and payload are in the buffer
C17_Witness ==
    /\ NeedMoreData
    /\ boundary = XToken
    /\ frames # <<>>
    /\ IsInfix(header_body_separator, buffer)
    /\ IsSuffix(CRLF \o <<Dash>>, buffer)
    /\ StartsWith(stream, <<Dash, 88>>)

(* -------------------------------- C18 ---------------------------------- *)
\* C18: when the token searched is not in the buffer, a step that stays in
\* Streaming appends a chunk of the stream at the end of the buffer, which
\* it leaves otherwise as it is, yields nothing and keeps boundary,
\* is_first_frame and the frames; the stream is read (a chunk taken, or
\* Streaming left on an error or the end) only when the token searched is
\* not in the buffer.
C18_ReadOnlyWithoutToken ==
    [][state = "Streaming" =>
          /\ (~IsInfix(boundary_to_search, buffer) /\ state' = "Streaming") =>
                 /\ \E n \in 1..Len(stream) :
                        /\ buffer' = buffer \o SubSeq(stream, 1, n)
                        /\ stream' = SubSeq(stream, n + 1, Len(stream))
                 /\ event' = NoMessage
                 /\ boundary' = boundary
                 /\ is_first_frame' = is_first_frame
                 /\ frames' = frames
          /\ (stream' # stream \/ rx' # rx \/ state' # "Streaming") =>
                 ~IsInfix(boundary_to_search, buffer)]_vars

\* after a frame a chunk that holds the boundary with no CRLF before it has
\* been appended: the token searched is not in the buffer, which waits for
\* more bytes
C18_Witness ==
    /\ NeedMoreData
    /\ event = NoMessage
    /\ ~is_first_frame
    /\ Len(buffer) < Len(rx)
    /\ IsInfix(boundary, buffer)

(* -------------------------------- C19 ---------------------------------- *)
\* C19: in every Streaming state the boundary is -- followed by at least
\* one byte, so the token searched, raw or with CRLF before it, has three
\* bytes or more; no step that stays in Streaming changes the boundary.
C19_BoundaryNonEmptyAndFixed ==
    /\ [](state = "Streaming" =>
             /\ Len(boundary) >= 3
             /\ SubSeq(boundary, 1, 2) = <<Dash, Dash>>
             /\ Len(boundary_to_search) >= 3)
    /\ [][(state = "Streaming" /\ state' = "Streaming") =>
              boundary' = boundary]_vars

\* a connection whose boundary value is the one byte X has emitted a frame
\* and now searches CRLF --X
C19_Witness ==
    /\ state = "Streaming"
    /\ boundary = XToken
    /\ event.type = "ImageLoaded"
    /\ boundary_to_search = CRLF \o XToken

(* -------------------------------- C20 ---------------------------------- *)
\* C20: in every Streaming state is_first_frame is true exactly when no
\* frame has been emitted on the connection; within a connection it changes
\* only from true to false and only in the step that emits a frame, and
\* every step that emits a frame leaves it false.
C20_FirstFrameFlag ==
    /\ [](state = "Streaming" => (is_first_frame <=> frames = <<>>))
    /\ [][(state = "Streaming" /\ state' = "Streaming") =>
              /\ is_first_frame' # is_first_frame =>
                     is_first_frame /\ event'.type = "ImageLoaded"
              /\ frames' # frames => ~is_first_frame'
              /\ event' = NoMessage => is_first_frame' = is_first_frame]_vars

\* the preamble boundary and a part with no payload have been drained and
\* is_first_frame is still true
C20_Witness ==
    /\ state = "Streaming"
    /\ is_first_frame
    /\ frames = <<>>
    /\ Position[Drained, boundary] # None
    /\ Position[Drained, boundary] + Len(boundary) < Len(Drained)

====
